---- MODULE Spec2Model ----
(***************************************************************************)
(* The promise reader facade of ngpre-wasm (src/lib.rs): the facade        *)
(* operations of NgPrePromiseReader / NgPrePromiseEtagReader, the tasks    *)
(* they hand to future_to_promise, the default dataset_exists of           *)
(* NgPreAsyncReader, and the wrapped block types generated by              *)
(* data_block_monomorphizer!.                                              *)
(*                                                                         *)
(* The host issues up to MaxOps facade operations (slots 1..MaxOps), which *)
(* interleave freely; each slot holds the operation, how far its code has  *)
(* run, the promise handed to the host and, for a block read that found a  *)
(* block, the wrapped block behind the handle the promise resolved with.   *)
(* The reader behind the facade (http_fetch, not part of lib.rs) is a      *)
(* fixed store of blocks and datasets; any of its operations may fault,    *)
(* and since no trait method returns a Result, a fault is a panic.         *)
(***************************************************************************)
EXTENDS Integers, Sequences, FiniteSets, TLC

VARIABLES ops, phase, promise, wrapper, last

vars == <<ops, phase, promise, wrapper, last>>

\* Number of facade operations the host issues in one run.
MaxOps == 2

Slots == 1..MaxOps

-----------------------------------------------------------------------------
\* Option<T>
None == [some |-> FALSE]
Some(x) == [some |-> TRUE, v |-> x]

\* JsValue
Undefined == [t |-> "undefined"]
JsBool(b) == [t |-> "bool", b |-> b]
JsString(s) == [t |-> "string", s |-> s]
JsObject(class, h) == [t |-> "object", class |-> class, h |-> h]

\* Result<JsValue, JsValue> of the future given to future_to_promise
Ok(v) == [ok |-> TRUE, v |-> v]
Err(v) == [ok |-> FALSE, v |-> v]

-----------------------------------------------------------------------------
\* ngpre::DataType, the tag data_attrs.0.get_data_type() returns
DataTypes ==
  {"UINT8", "UINT16", "UINT32", "UINT64", "INT8", "INT16", "INT32", "INT64",
   "FLOAT32", "FLOAT64"}

\* data_type_match!: the Rust type bound to RsType for a data type
RsType(dt) ==
  CASE dt = "UINT8" -> "u8"
    [] dt = "UINT16" -> "u16"
    [] dt = "UINT32" -> "u32"
    [] dt = "UINT64" -> "u64"
    [] dt = "INT8" -> "i8"
    [] dt = "INT16" -> "i16"
    [] dt = "INT32" -> "i32"
    [] dt = "INT64" -> "i64"
    [] dt = "FLOAT32" -> "f32"
    [] dt = "FLOAT64" -> "f64"

\* A mutant of the macro invocations: f64 registered to the f32 wrapper.
MONOMORPH_swapped(rs) ==
  CASE rs = "u8" -> "VecDataBlockUINT8"
    [] rs = "u16" -> "VecDataBlockUINT16"
    [] rs = "u32" -> "VecDataBlockUINT32"
    [] rs = "u64" -> "VecDataBlockUINT64"
    [] rs = "i8" -> "VecDataBlockINT8"
    [] rs = "i16" -> "VecDataBlockINT16"
    [] rs = "i32" -> "VecDataBlockINT32"
    [] rs = "i64" -> "VecDataBlockINT64"
    [] rs = "f32" -> "VecDataBlockFLOAT32"
    [] rs = "f64" -> "VecDataBlockFLOAT32"

\* <RsType as VecBlockMonomorphizerReflection>::MONOMORPH
MONOMORPH(rs) ==
  CASE rs = "u8" -> "VecDataBlockUINT8"
    [] rs = "u16" -> "VecDataBlockUINT16"
    [] rs = "u32" -> "VecDataBlockUINT32"
    [] rs = "u64" -> "VecDataBlockUINT64"
    [] rs = "i8" -> "VecDataBlockINT8"
    [] rs = "i16" -> "VecDataBlockINT16"
    [] rs = "i32" -> "VecDataBlockINT32"
    [] rs = "i64" -> "VecDataBlockINT64"
    [] rs = "f32" -> "VecDataBlockFLOAT32"
    [] rs = "f64" -> "VecDataBlockFLOAT64"

-----------------------------------------------------------------------------
\* The reader behind the facade: two paths, of which "a" is a dataset, and
\* three grid positions of that dataset: no block, a block whose transport
\* gave no tag, and a block with a tag.
Paths == {"a", "b"}
DatasetPaths == {"a"}
GridPositions == {<<0, 0>>, <<0, 1>>, <<1, 0>>}

BlockAt(pos) == [size |-> <<2, 2>>, grid_position |-> pos,
                 data |-> <<1 + pos[1], 2 + pos[2], 3, 4>>]

StoredBlock(pos) ==
  CASE pos = <<0, 0>> -> None
    [] pos = <<0, 1>> -> Some([block |-> BlockAt(pos), etag |-> None])
    [] pos = <<1, 0>> -> Some([block |-> BlockAt(pos), etag |-> Some("e1")])

\* NgPreAsyncReader::read_block::<T>
ReaderReadBlock(pos) ==
  IF StoredBlock(pos).some THEN Some(StoredBlock(pos).v.block) ELSE None

\* NgPreAsyncEtagReader::read_block_with_etag::<T>
ReaderReadBlockWithEtag(pos) == StoredBlock(pos)

\* NgPreAsyncEtagReader::block_etag
ReaderBlockEtag(pos) ==
  IF StoredBlock(pos).some THEN StoredBlock(pos).v.etag ELSE None

\* NgPreAsyncReader::get_dataset_attributes returns the attributes themselves,
\* so it completes only for a dataset; for any other path it can only fault.
AttributesObtainable(path) == path \in DatasetPaths

\* NgPreAsyncReader::exists
ReaderExists(path) == path \in DatasetPaths

-----------------------------------------------------------------------------
\* The facade operations: the six declared async, which await the reader
\* before they build their promise, and the two block reads, which hand the
\* reader's future to future_to_promise unpolled.
AsyncKinds ==
  {"get_version", "get_dataset_attributes", "exists", "dataset_exists",
   "list_attributes", "block_etag"}
BlockKinds == {"read_block", "read_block_with_etag"}

NoOp == [kind |-> "none"]
Op(kind, path, dt, pos, marshal) ==
  [kind |-> kind, path |-> path, dtype |-> dt, pos |-> pos, marshal |-> marshal]

\* js_sys::Promise: not yet created, pending, or settled; settles counts the
\* calls of its resolve and reject functions.
NoPromise == [state |-> "none", value |-> Undefined, settles |-> 0]

\* A mutant of future_to_promise that polls the future inside the call and
\* hands back a promise that is already settled.
future_to_promise_eager == [state |-> "resolved", value |-> Undefined, settles |-> 1]

\* future_to_promise(future): a pending promise, the future spawned as a task
future_to_promise == [state |-> "pending", value |-> Undefined, settles |-> 0]

\* The task future_to_promise spawned, when the future completes with r:
\* Ok resolves the promise, Err rejects it.
Settle(p, r) ==
  [state |-> IF r.ok THEN "resolved" ELSE "rejected", value |-> r.v,
   settles |-> p.settles + 1]

NoWrapper == [class |-> "none", alive |-> FALSE]

\* A mutant of the From<VecDataBlock<T>> impl that invents an empty tag.
FromBlock_tagged(rs, block) ==
  [class |-> MONOMORPH(rs), alive |-> TRUE, block |-> block, etag |-> Some("")]

\* impl From<VecDataBlock<$d_type>> for $d_name
FromBlock(rs, block) ==
  [class |-> MONOMORPH(rs), alive |-> TRUE, block |-> block, etag |-> None]

\* impl From<(VecDataBlock<$d_type>, Option<String>)> for $d_name
FromPair(rs, pair) ==
  [class |-> MONOMORPH(rs), alive |-> TRUE, block |-> pair.block, etag |-> pair.etag]

\* A mutant of the block reads' completion that turns "no block" into a rejection.
JsValueFromOption_rejecting(h, maybe) ==
  IF maybe.some THEN Ok(JsObject(maybe.v.class, h)) ELSE Err(JsString("no block"))

\* Ok(JsValue::from(maybe_block.map(MONOMORPH::from))): None is undefined
JsValueFromOption(h, maybe) ==
  IF maybe.some THEN Ok(JsObject(maybe.v.class, h)) ELSE Ok(Undefined)

\* NgPrePromiseReader::read_block: maybe_block.map(MONOMORPH::from)
ReadBlockWrapped(op) ==
  LET maybe_block == ReaderReadBlock(op.pos)
  IN IF maybe_block.some THEN Some(FromBlock(RsType(op.dtype), maybe_block.v)) ELSE None

\* NgPrePromiseEtagReader::read_block_with_etag: maybe_block.map(MONOMORPH::from)
ReadBlockWithEtagWrapped(op) ==
  LET maybe_block == ReaderReadBlockWithEtag(op.pos)
  IN IF maybe_block.some THEN Some(FromPair(RsType(op.dtype), maybe_block.v)) ELSE None

\* A mutant of block_etag that always answers with the default.
BlockEtagValue_default(etag) == ""

\* etag.unwrap_or_default()
BlockEtagValue(etag) == IF etag.some THEN etag.v ELSE ""

\* NgPreAsyncReader::dataset_exists (the default): .map(|_| true).map(|x| x && x)
DatasetExistsDefault(attrs) == LET x == TRUE IN x /\ x

\* Whether the reader operation the facade awaits can complete at all.
ReaderCompletes(op) ==
  IF op.kind \in {"get_dataset_attributes", "dataset_exists"}
  THEN AttributesObtainable(op.path)
  ELSE TRUE

\* The to_return future of the async facade operations, built after the await.
ToReturn(h, op) ==
  CASE op.kind = "get_version" -> Ok(JsObject("Version", h))
    [] op.kind = "get_dataset_attributes" -> Ok(JsObject("DatasetAttributes", h))
    [] op.kind = "exists" -> Ok(JsBool(ReaderExists(op.path)))
    [] op.kind = "dataset_exists" -> Ok(JsBool(DatasetExistsDefault(op.path)))
    [] op.kind = "list_attributes" -> Ok(JsObject("Object", h))
    [] op.kind = "block_etag" -> Ok(JsString(BlockEtagValue(ReaderBlockEtag(op.pos))))

\* The wrapped block, if any, that the task of a block read produced.
TaskWrapped(op) ==
  CASE op.kind = "read_block" -> ReadBlockWrapped(op)
    [] op.kind = "read_block_with_etag" -> ReadBlockWithEtagWrapped(op)
    [] OTHER -> None

\* What the spawned task completes with.
TaskResult(h, op) ==
  IF op.kind \in BlockKinds THEN JsValueFromOption(h, TaskWrapped(op)) ELSE ToReturn(h, op)

\* serde_wasm_bindgen::to_value(&list_attrs).unwrap() panics inside the task;
\* a block read's task polls the reader, which may fault.
TaskCanPanic(op) ==
  \/ op.kind \in BlockKinds
  \/ op.kind = "list_attributes" /\ ~op.marshal

TaskCanComplete(op) == ~(op.kind = "list_attributes" /\ ~op.marshal)

-----------------------------------------------------------------------------
Init ==
  /\ ops = [i \in Slots |-> NoOp]
  /\ phase = [i \in Slots |-> "idle"]
  /\ promise = [i \in Slots |-> NoPromise]
  /\ wrapper = [i \in Slots |-> NoWrapper]
  /\ last = [fn |-> "none"]

\* The host issues slot i next.
CanIssue(i) ==
  /\ phase[i] = "idle"
  /\ IF i = 1 THEN TRUE ELSE phase[i - 1] # "idle"

\* An async facade operation starts: it awaits the reader; no promise yet.
BeginAsync(i, op) ==
  /\ CanIssue(i)
  /\ ops' = [ops EXCEPT ![i] = op]
  /\ phase' = [phase EXCEPT ![i] = "awaiting"]
  /\ UNCHANGED <<promise, wrapper, last>>

\* A block read starts: data_type_match!, then future_to_promise at once.
BeginBlock(i, op) ==
  /\ CanIssue(i)
  /\ ops' = [ops EXCEPT ![i] = op]
  /\ phase' = [phase EXCEPT ![i] = "spawned"]
  /\ promise' = [promise EXCEPT ![i] = future_to_promise]
  /\ UNCHANGED <<wrapper, last>>

get_version(i) ==
  BeginAsync(i, Op("get_version", "a", "UINT8", <<0, 0>>, TRUE))

get_dataset_attributes(i) ==
  \E p \in Paths : BeginAsync(i, Op("get_dataset_attributes", p, "UINT8", <<0, 0>>, TRUE))

exists(i) ==
  \E p \in Paths : BeginAsync(i, Op("exists", p, "UINT8", <<0, 0>>, TRUE))

dataset_exists(i) ==
  \E p \in Paths : BeginAsync(i, Op("dataset_exists", p, "UINT8", <<0, 0>>, TRUE))

list_attributes(i) ==
  \E p \in Paths, m \in BOOLEAN : BeginAsync(i, Op("list_attributes", p, "UINT8", <<0, 0>>, m))

block_etag(i) ==
  \E pos \in GridPositions : BeginAsync(i, Op("block_etag", "a", "UINT8", pos, TRUE))

read_block(i, T) ==
  \E dt \in T, pos \in GridPositions :
    BeginBlock(i, Op("read_block", "a", dt, pos, TRUE))

read_block_with_etag(i, T) ==
  \E dt \in T, pos \in GridPositions :
    BeginBlock(i, Op("read_block_with_etag", "a", dt, pos, TRUE))

\* The awaited reader operation completes; the rest of the async fn runs:
\* it builds to_return and calls future_to_promise.
AwaitCompletes(i) ==
  /\ phase[i] = "awaiting"
  /\ ReaderCompletes(ops[i])
  /\ phase' = [phase EXCEPT ![i] = "spawned"]
  /\ promise' = [promise EXCEPT ![i] = future_to_promise]
  /\ UNCHANGED <<ops, wrapper, last>>

\* The awaited reader operation faults: the async fn panics before any
\* promise exists.
AwaitPanics(i) ==
  /\ phase[i] = "awaiting"
  /\ phase' = [phase EXCEPT ![i] = "panicked"]
  /\ UNCHANGED <<ops, promise, wrapper, last>>

\* A later turn of the event loop runs the spawned task to completion.
TaskRuns(i) ==
  /\ phase[i] = "spawned"
  /\ TaskCanComplete(ops[i])
  /\ phase' = [phase EXCEPT ![i] = "settled"]
  /\ promise' = [promise EXCEPT ![i] = Settle(promise[i], TaskResult(i, ops[i]))]
  /\ wrapper' = [wrapper EXCEPT ![i] =
                   IF TaskWrapped(ops[i]).some THEN TaskWrapped(ops[i]).v ELSE NoWrapper]
  /\ UNCHANGED <<ops, last>>

\* The spawned task panics: its promise stays pending.
TaskPanics(i) ==
  /\ phase[i] = "spawned"
  /\ TaskCanPanic(ops[i])
  /\ phase' = [phase EXCEPT ![i] = "panicked"]
  /\ UNCHANGED <<ops, promise, wrapper, last>>

-----------------------------------------------------------------------------
\* The wrapped block behind a handle, as the host calls its methods. A
\* method taking &self reads the block; into_data takes self and moves the
\* block out, after which the handle's pointer is null and every method
\* called through it throws.
Returned(v) == [t |-> "return", v |-> v]
Throw == [t |-> "throw", msg |-> "null pointer passed to rust"]

Moved(w) == [class |-> w.class, alive |-> FALSE]

\* A mutant of into_data that borrows the wrapper instead of consuming it.
AfterIntoData_borrowing(w) == w

\* pub fn into_data(self): the wrapper is consumed
AfterIntoData(w) == Moved(w)

\* pub fn get_data(&self): the wrapper is only borrowed
AfterGetData(w) == w

RECURSIVE Product(_)
Product(s) == IF s = <<>> THEN 1 ELSE Head(s) * Product(Tail(s))

\* self.1.to_owned()
GetEtagValue(w) == w.etag

HasHandle(h) == wrapper[h].class # "none"

Call(h, fn, ret) ==
  /\ HasHandle(h)
  /\ last' = [fn |-> fn, h |-> h, ret |-> ret]
  /\ UNCHANGED <<ops, phase, promise>>

get_size(h) ==
  /\ Call(h, "get_size",
          IF wrapper[h].alive THEN Returned(wrapper[h].block.size) ELSE Throw)
  /\ UNCHANGED wrapper

get_grid_position(h) ==
  /\ Call(h, "get_grid_position",
          IF wrapper[h].alive THEN Returned(wrapper[h].block.grid_position) ELSE Throw)
  /\ UNCHANGED wrapper

get_data(h) ==
  /\ Call(h, "get_data",
          IF wrapper[h].alive THEN Returned(wrapper[h].block.data) ELSE Throw)
  /\ wrapper' = [wrapper EXCEPT ![h] = IF wrapper[h].alive THEN AfterGetData(@) ELSE @]

into_data(h) ==
  /\ Call(h, "into_data",
          IF wrapper[h].alive THEN Returned(wrapper[h].block.data) ELSE Throw)
  /\ wrapper' = [wrapper EXCEPT ![h] = IF wrapper[h].alive THEN AfterIntoData(@) ELSE @]

get_num_elements(h) ==
  /\ Call(h, "get_num_elements",
          IF wrapper[h].alive THEN Returned(Product(wrapper[h].block.size)) ELSE Throw)
  /\ UNCHANGED wrapper

get_etag(h) ==
  /\ Call(h, "get_etag",
          IF wrapper[h].alive THEN Returned(GetEtagValue(wrapper[h])) ELSE Throw)
  /\ UNCHANGED wrapper

-----------------------------------------------------------------------------
\* The steps of the facade operation in slot i, its attributes' data type in T.
Step(i, T) ==
  \/ get_version(i)
  \/ get_dataset_attributes(i)
  \/ exists(i)
  \/ dataset_exists(i)
  \/ list_attributes(i)
  \/ block_etag(i)
  \/ read_block(i, T)
  \/ read_block_with_etag(i, T)
  \/ AwaitCompletes(i)
  \/ AwaitPanics(i)
  \/ TaskRuns(i)
  \/ TaskPanics(i)

\* The host's calls on the handle slot i resolved with.
Method(i) ==
  \/ get_size(i)
  \/ get_grid_position(i)
  \/ get_data(i)
  \/ into_data(i)
  \/ get_num_elements(i)
  \/ get_etag(i)

\* The whole facade: MaxOps operations of any kind, interleaved, and the
\* host's use of the handles.
Next == \E i \in Slots : Step(i, DataTypes) \/ Method(i)

Spec == Init /\ [][Next]_vars

\* One operation at a time, over all ten data types, and the host's use of
\* its handle.
NextOne == Step(1, DataTypes) \/ Method(1)

SpecOne == Init /\ [][NextOne]_vars

\* MaxOps interleaved operations, the attributes' data type one of two.
SampleTypes == {"UINT8", "FLOAT64"}

NextPair == \E i \in Slots : Step(i, SampleTypes)

SpecPair == Init /\ [][NextPair]_vars

-----------------------------------------------------------------------------
\* Vocabulary of the properties.
Settled(i) == promise[i].state \in {"resolved", "rejected"}
Terminated(i) == phase[i] \in {"settled", "panicked"}

\* The reader operation behind slot i has been started and has not completed.
ReaderPending(i) ==
  \/ phase[i] = "awaiting"
  \/ phase[i] = "spawned" /\ ops[i].kind \in BlockKinds

\* An Option<String> returned to the host: None arrives as undefined.
HostOptionString(o) == IF o.some THEN JsString(o.v) ELSE Undefined

\* The wrapper type each data type is documented to resolve with.
KindWrapper ==
  [UINT8 |-> "VecDataBlockUINT8", UINT16 |-> "VecDataBlockUINT16",
   UINT32 |-> "VecDataBlockUINT32", UINT64 |-> "VecDataBlockUINT64",
   INT8 |-> "VecDataBlockINT8", INT16 |-> "VecDataBlockINT16",
   INT32 |-> "VecDataBlockINT32", INT64 |-> "VecDataBlockINT64",
   FLOAT32 |-> "VecDataBlockFLOAT32", FLOAT64 |-> "VecDataBlockFLOAT64"]

-----------------------------------------------------------------------------
\* C1: dataset_exists(path) settles with true exactly when
\* get_dataset_attributes(path) succeeds; when the lookup cannot succeed it
\* settles with false, without a fault.
C1_DatasetExistsIffAttributes ==
  \A i \in Slots :
    ops[i].kind = "dataset_exists" =>
      /\ (AttributesObtainable(ops[i].path) /\ phase[i] = "settled"
            => promise[i] = [state |-> "resolved", value |-> JsBool(TRUE), settles |-> 1])
      /\ (~AttributesObtainable(ops[i].path) /\ Terminated(i)
            => /\ phase[i] = "settled"
               /\ promise[i] = [state |-> "resolved", value |-> JsBool(FALSE), settles |-> 1])

\* C2: whenever the reader behind a facade operation faults, the promise of
\* that operation ends up rejected with the collaborator's message.
C2_FaultsRejectPromise ==
  \A i \in Slots :
    phase[i] = "panicked" =>
      promise[i].state = "rejected" /\ promise[i].value.t = "string"

\* C3: a block read (plain or with etag) whose generic read completes with
\* no block resolves its promise with undefined; a block read's promise is
\* never rejected.
C3_AbsentBlockResolvesUndefined ==
  \A i \in Slots :
    ops[i].kind \in BlockKinds =>
      /\ promise[i].state # "rejected"
      /\ (phase[i] = "settled" /\ ~StoredBlock(ops[i].pos).some
            => /\ promise[i].state = "resolved"
               /\ promise[i].value = Undefined
               /\ ~HasHandle(i))

C3_Witness ==
  \E i \in Slots :
    /\ ops[i].kind = "read_block_with_etag"
    /\ phase[i] = "settled"
    /\ ~StoredBlock(ops[i].pos).some
    /\ promise[i].state = "resolved"

\* C4: every issued facade operation settles its promise exactly once: an
\* operation that has run to its end has a settled promise, and no promise
\* is ever settled twice.
C4_SettlesExactlyOnce ==
  \A i \in Slots :
    /\ promise[i].settles <= 1
    /\ Terminated(i) => Settled(i) /\ promise[i].settles = 1

\* C5 as claimed: for one grid position, the value block_etag resolves with
\* is the value get_etag returns on the wrapper read_block_with_etag resolved
\* with, also when the block has no tag.
C5_EtagsAgree ==
  \A i, j \in Slots :
    /\ ops[i].kind = "read_block_with_etag" /\ wrapper[i].alive
    /\ ops[j].kind = "block_etag" /\ phase[j] = "settled"
    /\ ops[j].pos = ops[i].pos
    => promise[j].value = HostOptionString(GetEtagValue(wrapper[i]))

\* C5, amended: the two agree when the block has a tag; without a tag
\* block_etag resolves with the empty string while get_etag returns nothing.
C5_EtagsAgreeWhenTagged ==
  \A i, j \in Slots :
    /\ ops[i].kind = "read_block_with_etag" /\ wrapper[i].alive
    /\ ops[j].kind = "block_etag" /\ phase[j] = "settled"
    /\ ops[j].pos = ops[i].pos
    => /\ promise[j].state = "resolved"
       /\ IF StoredBlock(ops[i].pos).v.etag.some
          THEN /\ GetEtagValue(wrapper[i]) = StoredBlock(ops[i].pos).v.etag
               /\ promise[j].value = HostOptionString(GetEtagValue(wrapper[i]))
          ELSE /\ GetEtagValue(wrapper[i]) = None
               /\ promise[j].value = JsString("")

C5_Witness ==
  \E i, j \in Slots :
    /\ ops[i].kind = "read_block_with_etag" /\ wrapper[i].alive
    /\ ops[j].kind = "block_etag" /\ phase[j] = "settled"
    /\ ops[j].pos = ops[i].pos
    /\ wrapper[i].etag.some

\* C7: a block read that finds a block resolves with the wrapper type of its
\* attributes' data type and no other, and the ten data types have ten
\* different wrapper types.
C7_KindDispatch ==
  /\ \A i \in Slots :
       HasHandle(i) =>
         /\ wrapper[i].class = KindWrapper[ops[i].dtype]
         /\ promise[i].value = JsObject(KindWrapper[ops[i].dtype], i)
  /\ \A d1, d2 \in DataTypes :
       MONOMORPH(RsType(d1)) = MONOMORPH(RsType(d2)) => d1 = d2

C7_Witness ==
  \E i \in Slots :
    /\ ops[i].kind = "read_block" /\ ops[i].dtype = "FLOAT64"
    /\ HasHandle(i) /\ promise[i].state = "resolved"

\* What the last call through a handle shows of the wrapper behind it.
C8_State ==
  /\ last.fn = "get_data" /\ last.ret # Throw
       => /\ last.ret = Returned(BlockAt(ops[last.h].pos).data)
          /\ wrapper[last.h].alive
          /\ wrapper[last.h].block = BlockAt(ops[last.h].pos)
  /\ last.fn = "into_data" /\ last.ret # Throw
       => /\ last.ret = Returned(BlockAt(ops[last.h].pos).data)
          /\ ~wrapper[last.h].alive
  /\ last.fn \notin {"none", "into_data"} /\ last.ret # Throw
       => wrapper[last.h].alive

\* A call through a consumed handle.
C8_Step ==
  \A h \in Slots :
    HasHandle(h) /\ ~wrapper[h].alive /\ last' # last
      => last'.ret = Throw /\ wrapper' = wrapper

\* C8: get_data returns the payload and leaves the wrapper as it was, alive
\* and with the same block; into_data returns the payload and consumes the
\* wrapper; every call through a consumed handle throws and changes nothing.
C8_GetDataKeepsIntoDataConsumes == []C8_State /\ [][C8_Step]_vars

C8_Witness ==
  /\ last.fn = "get_data" /\ last.ret = Throw
  /\ ~wrapper[last.h].alive

\* C9 as claimed: every facade operation has handed the host its promise
\* while the reader operation behind it has not yet completed.
C9_PromiseBeforeCompletion ==
  \A i \in Slots : ReaderPending(i) => promise[i].state = "pending"

\* Which operations hold a promise while their reader operation is pending.
C9_State ==
  \A i \in Slots :
    /\ ops[i].kind \in BlockKinds /\ ReaderPending(i) => promise[i].state = "pending"
    /\ ops[i].kind \in AsyncKinds /\ ReaderPending(i) => promise[i].state = "none"

\* A promise is created pending.
C9_Step ==
  \A i \in Slots :
    promise[i].state = "none" => promise'[i].state \in {"none", "pending"}

\* C9, amended: the two block reads hand over their promise before the read
\* has completed; the six async operations create theirs only once the
\* awaited reader operation has completed; every promise is pending when
\* created and is settled in a later turn.
C9_PromiseThenLaterSettlement == []C9_State /\ [][C9_Step]_vars

C9_Witness ==
  \E i, j \in Slots :
    /\ ops[i].kind \in BlockKinds /\ ReaderPending(i) /\ promise[i].state = "pending"
    /\ ops[j].kind \in AsyncKinds /\ promise[j].state = "resolved"

\* C10: a wrapper exists only for a block read that has completed with a
\* block; one made by read_block has no tag, one made by read_block_with_etag
\* has the tag of the pair the generic read returned; get_etag returns that
\* tag, and no call changes it.
C10_WrapperTag ==
  \A i \in Slots :
    HasHandle(i) =>
      /\ ops[i].kind \in BlockKinds
      /\ phase[i] = "settled"
      /\ StoredBlock(ops[i].pos).some
      /\ LET tag == IF ops[i].kind = "read_block" THEN None
                    ELSE StoredBlock(ops[i].pos).v.etag
         IN /\ wrapper[i].alive => GetEtagValue(wrapper[i]) = tag
            /\ last.fn = "get_etag" /\ last.h = i /\ last.ret # Throw
                 => last.ret = Returned(tag)

C10_Witness ==
  \E i \in Slots :
    /\ ops[i].kind = "read_block_with_etag"
    /\ wrapper[i].alive /\ wrapper[i].etag = Some("e1")
    /\ last.fn = "get_etag" /\ last.ret = Returned(Some("e1"))

====
